---- MODULE Spec2Model ----
(***************************************************************************)
(* A model of gitlint/utils.py: the executable locator (which,             *)
(* programs_not_in_path), the line filter (filter_lines) and the output    *)
(* cache (_get_cache_filename, _open_for_write, get_output_from_cache,     *)
(* save_output_in_cache).                                                  *)
(*                                                                         *)
(* The file system, the clock and the environment are the state.  A text   *)
(* is a sequence of characters; "CR" and "LF" are the two newline          *)
(* characters, "NUL" the byte a hole of a sparse file reads as.            *)
(***************************************************************************)
EXTENDS Integers, Sequences, FiniteSets, TLC

VARIABLES
    platform,    \* sys.platform: "posix" or "win32"
    clock,       \* the file system's current timestamp
    srcMtime,    \* absolute source file -> its modification time
    cache,       \* cache file name -> [exists, data, mtime]
    cacheDirs,   \* the directories that exist under the cache root
    savedSince,  \* history: source file -> cache files written since its last touch
    fs,          \* the files the locator can see: a set of [dir, name, kind]
    envPath,     \* os.environ's PATH, split at os.pathsep; Unset when not set
    pathext,     \* os.environ.get("PATHEXT", ""), split at os.pathsep
    call,        \* the call of a function of the module and its arguments
    ret,         \* [done, value]: what the call returned, once it has run
    proc,        \* process -> [pc, buf, off]: where it is in a cache call
    started,     \* history: the texts handed to save_output_in_cache so far
    torn,        \* history: the save that last opened the file overlapped another
    last,        \* history: the last call, its arguments and what it returned
    calls        \* history: how many calls were made, where a run is cut short

cacheVars == <<clock, srcMtime, cache, cacheDirs, savedSince>>
procVars == <<proc, started, torn>>
callVars == <<fs, envPath, pathext, call, ret>>
vars == <<platform, clock, srcMtime, cache, cacheDirs, savedSince, fs, envPath,
          pathext, call, ret, proc, started, torn, last, calls>>

----------------------------------------------------------------------------
(* Bounds *)

\* longest output text handed to save_output_in_cache
MaxLen == 2
\* the clock stops ticking here
MaxClock == 2
\* calls in a run over several cache entries
MaxCalls == 3
\* files and directories the locator can see
MaxFiles == 1
\* directories in a search path
MaxPath == 2
\* names handed to programs_not_in_path
MaxPrograms == 2
\* lines handed to filter_lines
MaxLines == 2
\* group names handed to filter_lines
MaxGroups == 2

----------------------------------------------------------------------------
(* Texts *)

Char == {"a", "CR", "LF"}

Texts(n) == UNION {[1..k -> Char] : k \in 0..n}

Outputs == Texts(MaxLen)

\* io.open(filename, 'w') writes in text mode with newline=None: every "\n"
\* of the text becomes os.linesep, "\r\n" on win32 and "\n" elsewhere.
RECURSIVE WriteTranslate(_, _)
WriteTranslate(p, s) ==
    IF s = <<>> THEN <<>>
    ELSE (IF Head(s) = "LF" /\ p = "win32" THEN <<"CR", "LF">> ELSE <<Head(s)>>)
         \o WriteTranslate(p, Tail(s))

\* io.open(cache_filename) reads in text mode with newline=None (universal
\* newlines): "\r\n" and a lone "\r" both come back as "\n".
RECURSIVE ReadTranslate(_)
ReadTranslate(s) ==
    IF s = <<>> THEN <<>>
    ELSE IF Head(s) = "CR"
         THEN <<"LF">> \o ReadTranslate(IF Len(s) >= 2 /\ s[2] = "LF"
                                        THEN Tail(Tail(s)) ELSE Tail(s))
         ELSE <<Head(s)>> \o ReadTranslate(Tail(s))

\* PATH is not in the environment
Unset == <<"unset">>

\* the call has not run
NotRun == [done |-> FALSE, value |-> <<>>]
Returned(v) == [done |-> TRUE, value |-> v]

None == [kind |-> "None", text |-> <<>>]
Text(t) == [kind |-> "text", text |-> t]

----------------------------------------------------------------------------
(* Paths.  A file name is [drive, abs, parts]: an optional drive, whether  *)
(* it starts at the root, and its components.                              *)

Platforms == {"posix", "win32"}

Path(d, a, ps) == [drive |-> d, abs |-> a, parts |-> ps]

\* the process's current directory
Cwd(p) == Path(IF p = "win32" THEN "C:" ELSE "", TRUE, <<"w">>)

\* the source file names the cache is asked about
Filenames(p) ==
    {Path("", FALSE, <<"x">>)}
    \cup (IF p = "win32"
          THEN {Path("C:", TRUE, <<"w", "x">>), Path("D:", TRUE, <<"w", "x">>),
                Path("C:", TRUE, <<"w", "y">>)}
          ELSE {Path("", TRUE, <<"w", "x">>), Path("", TRUE, <<"w", "y">>)})

Names == {"n1", "n2"}

\* os.path.abspath
abspath(p, f) ==
    IF f.abs THEN f ELSE Path(Cwd(p).drive, TRUE, Cwd(p).parts \o f.parts)

\* os.path.splitdrive(filename)[1]
splitdrive1(f) == Path("", f.abs, f.parts)

\* filename.lstrip(os.path.sep)
lstrip(f) == Path(f.drive, FALSE, f.parts)

\* the name is left out of the cache location
CacheFilenameWithoutName(p, name, filename) ==
    <<"~", ".git-lint", "cache">> \o lstrip(splitdrive1(abspath(p, filename))).parts

\* the cache root, os.path.join(os.path.expanduser('~'), '.git-lint', 'cache')
base_cache_dir == <<"~", ".git-lint", "cache">>

_get_cache_filename(p, name, filename) ==
    base_cache_dir \o <<name>> \o lstrip(splitdrive1(abspath(p, filename))).parts

AbsFiles(p) == {abspath(p, f) : f \in Filenames(p)}

CacheFiles(p) == {_get_cache_filename(p, n, f) : n \in Names, f \in Filenames(p)}

\* os.path.dirname and every directory above it
Parents(cf) == {SubSeq(cf, 1, k) : k \in 1..(Len(cf) - 1)}

----------------------------------------------------------------------------
(* The cache file *)

Absent == [exists |-> FALSE, data |-> <<>>, mtime |-> 0]

\* mode 'r+' in place of 'w': the old content stays
OpenKeepingContent(entry, now) ==
    [exists |-> TRUE, data |-> entry.data, mtime |-> now]

\* io.open(filename, 'w'): the file is created or truncated
OpenTruncating(entry, now) ==
    [exists |-> TRUE, data |-> <<>>, mtime |-> now]

\* write(2) of data at offset off: a gap before off reads as NUL bytes
WriteAt(entry, off, data, now) ==
    LET old == entry.data
        pad == [i \in 1..(off - Len(old)) |-> "NUL"]
        head == IF off <= Len(old) THEN SubSeq(old, 1, off) ELSE old \o pad
        rest == IF off + Len(data) < Len(old)
                THEN SubSeq(old, off + Len(data) + 1, Len(old)) ELSE <<>>
    IN [exists |-> TRUE, data |-> head \o data \o rest, mtime |-> now]

\* the cache entry is reused while the source is not older: <= in place of <
NotNewerThan(srcTime, cacheTime) == srcTime <= cacheTime

\* os.path.getmtime(filename) < os.path.getmtime(cache_filename)
OlderThan(srcTime, cacheTime) == srcTime < cacheTime

\* the time stamps are not compared: whatever the cache holds is returned
GetIgnoringMtime(name, filename) ==
    LET cf == _get_cache_filename(platform, name, filename)
    IN IF cache[cf].exists THEN Text(ReadTranslate(cache[cf].data)) ELSE None

\* what get_output_from_cache(name, filename) returns in the current state
GetResult(name, filename) ==
    LET cf == _get_cache_filename(platform, name, filename)
    IN IF cache[cf].exists
          /\ OlderThan(srcMtime[abspath(platform, filename)], cache[cf].mtime)
       THEN Text(ReadTranslate(cache[cf].data))
       ELSE None

NoCall == [op |-> "none", name |-> "", file |-> Path("", FALSE, <<>>),
           output |-> <<>>, result |-> None, afterSave |-> FALSE,
           quiet |-> FALSE]

----------------------------------------------------------------------------
(* Operations on the cache, each call run to completion *)

\* time passes
Tick ==
    /\ clock < MaxClock
    /\ clock' = clock + 1
    /\ UNCHANGED <<platform, srcMtime, cache, cacheDirs, savedSince, last, procVars, callVars>>

\* the source file is modified
Touch(f) ==
    /\ srcMtime' = [srcMtime EXCEPT ![f] = clock]
    /\ savedSince' = [savedSince EXCEPT ![f] = {}]
    /\ last' = [NoCall EXCEPT !.op = "touch", !.file = f]
    /\ UNCHANGED <<platform, clock, cache, cacheDirs, procVars, callVars>>

save_output_in_cache(name, filename, output) ==
    LET cf == _get_cache_filename(platform, name, filename)
        opened == OpenTruncating(cache[cf], clock)
        written == WriteAt(opened, 0, WriteTranslate(platform, output), clock)
    IN /\ cacheDirs' = cacheDirs \cup Parents(cf)
       /\ cache' = [cache EXCEPT ![cf] = written]
       /\ savedSince' = [f \in DOMAIN savedSince |-> savedSince[f] \cup {cf}]
       /\ last' = [NoCall EXCEPT !.op = "save", !.name = name,
                                 !.file = filename, !.output = output]
       /\ UNCHANGED <<platform, clock, srcMtime, procVars, callVars>>

\* history: the call before this one was save_output_in_cache(name, filename, _)
FollowsSave(name, filename) ==
    last.op = "save" /\ last.name = name /\ last.file = filename

get_output_from_cache(name, filename) ==
    /\ last' = [op |-> "get", name |-> name, file |-> filename,
                output |-> IF FollowsSave(name, filename)
                           THEN last.output ELSE <<>>,
                result |-> GetResult(name, filename),
                afterSave |-> FollowsSave(name, filename),
                quiet |-> TRUE]
    /\ UNCHANGED <<platform, clock, srcMtime, cache, cacheDirs, savedSince, procVars,
                   callVars>>

\* the processes that use the cache at the same time
Procs == {"p1", "p2"}

Idle == [pc |-> "idle", buf |-> <<>>, off |-> 0]

InitCacheState ==
    /\ platform \in Platforms
    /\ clock = 1
    /\ srcMtime = [f \in AbsFiles(platform) |-> 0]
    /\ cache = [cf \in CacheFiles(platform) |-> Absent]
    /\ cacheDirs = {base_cache_dir}
    /\ savedSince = [f \in AbsFiles(platform) |-> {}]
    /\ proc = [p \in Procs |-> Idle]
    /\ started = {}
    /\ torn = FALSE
    /\ last = NoCall
    /\ calls = 0

InitCache ==
    /\ InitCacheState
    /\ fs = {}
    /\ envPath = Unset
    /\ pathext = <<"">>
    /\ call = [op |-> "none"]
    /\ ret = NotRun

\* one source file, named relatively and absolutely
OneFile(p) == {f \in Filenames(p) : abspath(p, f) = abspath(p, Path("", FALSE, <<"x">>))}

NextCache ==
    /\ \/ Tick
       \/ \E f \in {abspath(platform, g) : g \in OneFile(platform)} : Touch(f)
       \/ \E f \in OneFile(platform), o \in Outputs :
              save_output_in_cache("n1", f, o)
       \/ \E f \in OneFile(platform) : get_output_from_cache("n1", f)
    /\ UNCHANGED calls

SpecCache == InitCache /\ [][NextCache]_vars

\* two texts, enough to tell one tool's entry from another's
TwoOutputs == {<<"a">>, <<"LF", "a">>}

\* every tool on every source file, named absolutely
NextEntries ==
    \/ Tick /\ UNCHANGED calls
    \/ /\ calls < MaxCalls
       /\ calls' = calls + 1
       /\ \/ \E f \in AbsFiles(platform) : Touch(f)
          \/ \E n \in Names, f \in AbsFiles(platform), o \in TwoOutputs :
                 save_output_in_cache(n, f, o)
          \/ \E n \in Names, f \in AbsFiles(platform) :
                 get_output_from_cache(n, f)

SpecEntries == InitCache /\ [][NextEntries]_vars

----------------------------------------------------------------------------
(* Two processes on one cache entry, the calls split at their system calls *)

Writing(p) == proc[p].pc = "writing"

\* _open_for_write: the directories are made, the file is created or truncated
SaveOpen(p, name, filename, output) ==
    LET cf == _get_cache_filename(platform, name, filename)
    IN /\ proc[p].pc = "idle"
       /\ cacheDirs' = cacheDirs \cup Parents(cf)
       /\ cache' = [cache EXCEPT ![cf] = OpenTruncating(cache[cf], clock)]
       /\ proc' = [proc EXCEPT ![p] = [pc |-> "writing",
                                       buf |-> WriteTranslate(platform, output),
                                       off |-> 0]]
       /\ savedSince' = [f \in DOMAIN savedSince |-> savedSince[f] \cup {cf}]
       /\ started' = started \cup {output}
       /\ torn' = (\E q \in Procs \ {p} : Writing(q))
       /\ last' = [NoCall EXCEPT !.op = "open", !.name = name,
                                 !.file = filename, !.output = output]
       /\ UNCHANGED <<platform, clock, srcMtime, calls, callVars>>

\* f.write(output) reaches the file in one write(2) or in several, each at
\* this process's own offset
SaveWrite(p, name, filename, k) ==
    LET cf == _get_cache_filename(platform, name, filename)
    IN /\ Writing(p)
       /\ k \in 1..Len(proc[p].buf)
       /\ cache' = [cache EXCEPT ![cf] =
                        WriteAt(cache[cf], proc[p].off, SubSeq(proc[p].buf, 1, k), clock)]
       /\ proc' = [proc EXCEPT ![p].buf = SubSeq(proc[p].buf, k + 1, Len(proc[p].buf)),
                               ![p].off = proc[p].off + k]
       /\ UNCHANGED <<platform, clock, srcMtime, cacheDirs, savedSince, started,
                      torn, last, calls, callVars>>

\* the file is closed with text still unwritten
CloseWithoutFlush(p) ==
    /\ Writing(p)
    /\ proc' = [proc EXCEPT ![p] = Idle]
    /\ UNCHANGED <<platform, clock, srcMtime, cache, cacheDirs, savedSince,
                   started, torn, last, calls, callVars>>

\* the with block ends: everything is written and the file is closed
SaveClose(p) ==
    /\ Writing(p)
    /\ proc[p].buf = <<>>
    /\ proc' = [proc EXCEPT ![p] = Idle]
    /\ UNCHANGED <<platform, clock, srcMtime, cache, cacheDirs, savedSince,
                   started, torn, last, calls, callVars>>

\* os.path.exists(cache_filename) and the comparison of the two time stamps
GetCheck(p, name, filename) ==
    /\ proc[p].pc = "idle"
    /\ IF GetResult(name, filename) = None
       THEN /\ last' = [NoCall EXCEPT !.op = "get", !.name = name, !.file = filename]
            /\ proc' = proc
       ELSE /\ last' = last
            /\ proc' = [proc EXCEPT ![p].pc = "reading"]
    /\ UNCHANGED <<platform, clock, srcMtime, cache, cacheDirs, savedSince,
                   started, torn, calls, callVars>>

\* io.open(cache_filename) and f.read(): whatever the file holds by now;
\* quiet records that no save has the file open and none overlapped the last
GetRead(p, name, filename) ==
    LET cf == _get_cache_filename(platform, name, filename)
    IN /\ proc[p].pc = "reading"
       /\ last' = [NoCall EXCEPT !.op = "get", !.name = name, !.file = filename,
                                 !.result = Text(ReadTranslate(cache[cf].data)),
                                 !.quiet = (~torn /\ \A q \in Procs : ~Writing(q))]
       /\ proc' = [proc EXCEPT ![p] = Idle]
       /\ UNCHANGED <<platform, clock, srcMtime, cache, cacheDirs, savedSince,
                      started, torn, calls, callVars>>

TheFile(p) == abspath(p, Path("", FALSE, <<"x">>))

NextConcurrent ==
    \/ Tick /\ UNCHANGED calls
    \/ Touch(TheFile(platform)) /\ UNCHANGED calls
    \/ \E p \in Procs, o \in TwoOutputs :
           SaveOpen(p, "n1", TheFile(platform), o)
    \/ \E p \in Procs, k \in 1..(2 * MaxLen) :
           SaveWrite(p, "n1", TheFile(platform), k)
    \/ \E p \in Procs : SaveClose(p)
    \/ \E p \in Procs : GetCheck(p, "n1", TheFile(platform))
    \/ \E p \in Procs : GetRead(p, "n1", TheFile(platform))

SpecConcurrent == InitCache /\ [][NextConcurrent]_vars

----------------------------------------------------------------------------
(* The executable locator.  A path is [dir, name]: dir is "" for a bare    *)
(* program name, and name is the file name cut into its stem and its       *)
(* extensions, <<"ls", ".exe">> for ls.exe.                                *)

File(d, n) == [dir |-> d, name |-> n]

\* str.lower() on the strings of the model
Lower(t) ==
    CASE t = "/BIN" -> "/bin"
      [] t = ".EXE" -> ".exe"
      [] t = ".BAT" -> ".bat"
      [] OTHER -> t

LowerName(n) == [i \in DOMAIN n |-> Lower(n[i])]

\* the file a path names: relative paths start at the current directory, and
\* the file system of win32 does not tell upper case from lower case
FsKey(p, path) ==
    LET d == IF path.dir = "" THEN "." ELSE path.dir
    IN IF p = "win32" THEN File(Lower(d), LowerName(path.name))
       ELSE File(d, path.name)

Kinds == {"exec", "plain", "dir"}

KindOf(p, path) ==
    LET hits == {e \in fs : File(e.dir, e.name) = FsKey(p, path)}
    IN IF hits = {} THEN "missing" ELSE (CHOOSE e \in hits : TRUE).kind

DefaultMode == "F_OK|X_OK"

\* os.access(filename, mode): directories are searchable
access(p, path, mode) ==
    IF mode = DefaultMode THEN KindOf(p, path) \in {"exec", "dir"}
    ELSE KindOf(p, path) # "missing"

_access_check(p, path, mode) ==
    /\ KindOf(p, path) # "missing"
    /\ access(p, path, mode)
    /\ KindOf(p, path) # "dir"

NotFound == [found |-> FALSE, path |-> File("", <<>>)]
Found(path) == [found |-> TRUE, path |-> path]

\* path == None
NoPath == <<"None">>

\* os.defpath
defpath(p) == IF p = "win32" THEN <<".", "C:\\bin">> ELSE <<"/bin", "/usr/bin">>

\* lower case on every platform
NormcaseEverywhere(p, d) == Lower(d)

\* os.path.normcase
normcase(p, d) == IF p = "win32" THEN Lower(d) ELSE d

\* cmd.lower().endswith(ext.lower())
EndsWith(name, ext) == ext = "" \/ Lower(name[Len(name)]) = Lower(ext)

\* cmd + ext
WithExt(name, ext) == IF ext = "" THEN name ELSE Append(name, ext)

\* the directories searched, lines 52-62; <<>> is the empty string
SearchDirs(p, path) ==
    LET given == IF path = NoPath
                 THEN (IF envPath = Unset THEN defpath(p) ELSE envPath)
                 ELSE path
    IN IF given = <<>> THEN <<>>
       ELSE IF p = "win32" /\ \A i \in 1..Len(given) : given[i] # "."
            THEN <<".">> \o given
            ELSE given

\* the file names tried in a directory, lines 59-77
Candidates(p, name) ==
    IF p = "win32"
    THEN IF \E i \in 1..Len(pathext) : EndsWith(name, pathext[i])
         THEN <<name>>
         ELSE [i \in 1..Len(pathext) |-> WithExt(name, pathext[i])]
    ELSE <<name>>

\* for thefile in files: the first that passes in dirname
RECURSIVE FirstIn(_, _, _, _)
FirstIn(p, dirname, files, mode) ==
    IF files = <<>> THEN NotFound
    ELSE IF _access_check(p, File(dirname, Head(files)), mode)
         THEN Found(File(dirname, Head(files)))
         ELSE FirstIn(p, dirname, Tail(files), mode)

\* for dirname in path, lines 79-88
RECURSIVE Search(_, _, _, _, _)
Search(p, dirs, files, seen, mode) ==
    IF dirs = <<>> THEN NotFound
    ELSE LET normdir == normcase(p, Head(dirs))
         IN IF normdir \in seen
            THEN Search(p, Tail(dirs), files, seen, mode)
            ELSE LET hit == FirstIn(p, Head(dirs), files, mode)
                 IN IF hit.found THEN hit
                    ELSE Search(p, Tail(dirs), files, seen \cup {normdir}, mode)

\* the search path is consulted whatever the name
WhichAlwaysSearching(cmd, mode, path) ==
    LET hit == Search(platform, SearchDirs(platform, path),
                      Candidates(platform, cmd.name), {}, mode)
    IN IF cmd.dir # "" /\ _access_check(platform, cmd, mode)
       THEN Found(cmd) ELSE hit

which(cmd, mode, path) ==
    IF cmd.dir # ""
    THEN IF _access_check(platform, cmd, mode) THEN Found(cmd) ELSE NotFound
    ELSE Search(platform, SearchDirs(platform, path),
                Candidates(platform, cmd.name), {}, mode)

\* the test the wrong way round: the programs that are found
RECURSIVE ProgramsInPath(_)
ProgramsInPath(programs) ==
    IF programs = <<>> THEN <<>>
    ELSE (IF which(Head(programs), DefaultMode, NoPath).found
          THEN <<Head(programs)>> ELSE <<>>)
         \o ProgramsInPath(Tail(programs))

\* [program for program in programs if not which(program)]
RECURSIVE programs_not_in_path(_)
programs_not_in_path(programs) ==
    IF programs = <<>> THEN <<>>
    ELSE (IF which(Head(programs), DefaultMode, NoPath).found
          THEN <<>> ELSE <<Head(programs)>>)
         \o programs_not_in_path(Tail(programs))

(* The inputs *)

PathDirs == {"/bin", "/BIN", "."}

FileNames(p) ==
    IF p = "win32" THEN {<<"ls">>, <<"ls", ".exe">>, <<"ls", ".bat">>}
    ELSE {<<"ls">>, <<"ls", ".exe">>}

\* the files that can exist: on win32 in lower case, the way FsKey names them
FsKeys(p) == {FsKey(p, File(d, n)) : d \in PathDirs, n \in FileNames(p)}

RECURSIVE FileSystems(_, _)
FileSystems(p, n) ==
    IF n = 0 THEN {{}}
    ELSE LET smaller == FileSystems(p, n - 1)
         IN smaller \cup
            {s \cup {[dir |-> k.dir, name |-> k.name, kind |-> kd]} :
                 s \in {t \in smaller : Cardinality(t) = n - 1},
                 k \in FsKeys(p), kd \in Kinds}

\* no file has two kinds
WellFormed(s) == \A e1, e2 \in s : (e1.dir = e2.dir /\ e1.name = e2.name) => e1 = e2

Lists(S, n) == UNION {[1..k -> S] : k \in 0..n}

EnvPaths == {Unset} \cup Lists(PathDirs, MaxPath)

PathExts(p) == IF p = "win32" THEN {<<"">>, <<".EXE", ".BAT">>} ELSE {<<"">>}

Cmds == {File("", <<"ls">>), File("", <<"ls", ".exe">>),
         File(".", <<"ls">>), File("/BIN", <<"ls">>)}

PathArgs == {NoPath, <<>>, <<"/BIN", "/bin">>}

Modes == {DefaultMode, "F_OK"}

InitEnv ==
    /\ InitCacheState
    /\ fs \in {s \in FileSystems(platform, MaxFiles) : WellFormed(s)}
    /\ envPath \in EnvPaths
    /\ pathext \in PathExts(platform)
    /\ ret = NotRun

InitWhich ==
    /\ InitEnv
    /\ call \in {[op |-> "which", cmd |-> c, mode |-> m, path |-> a] :
                    c \in Cmds, m \in Modes, a \in PathArgs}

Programs == {File("", <<"ls">>), File("", <<"ls", ".exe">>), File("/BIN", <<"ls">>)}

InitPrograms ==
    /\ InitEnv
    /\ call \in {[op |-> "programs_not_in_path", programs |-> ps] :
                    ps \in Lists(Programs, MaxPrograms)}

Which ==
    /\ call.op = "which"
    /\ ~ret.done
    /\ ret' = Returned(which(call.cmd, call.mode, call.path))
    /\ UNCHANGED <<platform, cacheVars, procVars, last, calls, fs, envPath,
                   pathext, call>>

ProgramsNotInPath ==
    /\ call.op = "programs_not_in_path"
    /\ ~ret.done
    /\ ret' = Returned(programs_not_in_path(call.programs))
    /\ UNCHANGED <<platform, cacheVars, procVars, last, calls, fs, envPath,
                   pathext, call>>

SpecWhich == InitWhich /\ [][Which]_vars

SpecPrograms == InitPrograms /\ [][ProgramsNotInPath]_vars

----------------------------------------------------------------------------
(* The line filter.  A regular expression is a sequence of atoms, each one *)
(* character, bare or in a named group (?P<name>c), the group optional or  *)
(* not: enough of re to tell a search from a match at the start, a group   *)
(* that took no part in the match from one the expression does not have.   *)

Atom(c, g, o) == [ch |-> c, group |-> g, opt |-> o]

\* re.compile: an expression that names a group twice is an error
Compiles(regex) ==
    \A i, j \in DOMAIN regex :
        (i # j /\ regex[i].group # "") => regex[i].group # regex[j].group

\* what a group that took no part in the match captures, and what
\* dict.get answers for a name it does not hold
NoneCap == <<"None">>

NoMatch == [ok |-> FALSE, caps |-> {}]

Captured(a, text, m) ==
    [ok |-> TRUE,
     caps |-> m.caps \cup (IF a.group = "" THEN {} ELSE {<<a.group, text>>})]

\* the atoms from the k-th on match the line at pos: greedy, backtracking
RECURSIVE MatchFrom(_, _, _, _)
MatchFrom(regex, line, k, pos) ==
    IF k > Len(regex) THEN [ok |-> TRUE, caps |-> {}]
    ELSE LET a == regex[k]
             taken == IF pos <= Len(line) /\ line[pos] = a.ch
                      THEN MatchFrom(regex, line, k + 1, pos + 1) ELSE NoMatch
             skipped == IF a.opt THEN MatchFrom(regex, line, k + 1, pos) ELSE NoMatch
         IN IF taken.ok THEN Captured(a, <<a.ch>>, taken)
            ELSE IF skipped.ok THEN Captured(a, NoneCap, skipped)
            ELSE NoMatch

RECURSIVE SearchFrom(_, _, _)
SearchFrom(regex, line, pos) ==
    IF pos > Len(line) + 1 THEN NoMatch
    ELSE IF MatchFrom(regex, line, 1, pos).ok THEN MatchFrom(regex, line, 1, pos)
         ELSE SearchFrom(regex, line, pos + 1)

\* pattern.match(line): at the start of the line only
MatchAtStart(regex, line) == MatchFrom(regex, line, 1, 1)

\* pattern.search(line): the leftmost match
search(regex, line) == SearchFrom(regex, line, 1)

\* match.groupdict(): the names the match holds
Held(m) == {c[1] : c \in m.caps}

CapOf(m, name) == (CHOOSE c \in m.caps : c[1] = name)[2]

Raise(e) == [yielded |-> <<>>, raised |-> e]
Yield(v, rest) == [yielded |-> <<v>> \o rest.yielded, raised |-> rest.raised]

\* tuple(matched_groups.get(group) for group in groups)
TupleOf(m, groups) ==
    [raised |-> "",
     value |-> [i \in DOMAIN groups |->
                   IF groups[i] \in Held(m) THEN CapOf(m, groups[i]) ELSE NoneCap]]

\* match.group(groups[0])
GroupOf(m, name) ==
    IF name \in Held(m) THEN [raised |-> "", value |-> CapOf(m, name)]
    ELSE [raised |-> "IndexError", value |-> <<>>]

\* groups is None
NoGroups == <<"None">>

\* the body of the loop, for a line that matched
Extract(m, line, groups) ==
    IF groups = NoGroups THEN [raised |-> "", value |-> line]
    ELSE IF Len(groups) = 1 THEN GroupOf(m, groups[1])
    ELSE TupleOf(m, groups)

\* for line in lines
RECURSIVE FilterFrom(_, _, _)
FilterFrom(regex, lines, groups) ==
    IF lines = <<>> THEN [yielded |-> <<>>, raised |-> ""]
    ELSE LET m == search(regex, Head(lines))
         IN IF ~m.ok THEN FilterFrom(regex, Tail(lines), groups)
            ELSE LET x == Extract(m, Head(lines), groups)
                 IN IF x.raised # "" THEN Raise(x.raised)
                    ELSE Yield(x.value, FilterFrom(regex, Tail(lines), groups))

\* the whole of the generator, consumed to its end or to the error it raises
filter_lines(lines, regex, groups) ==
    IF ~Compiles(regex) THEN Raise("re.error")
    ELSE FilterFrom(regex, lines, groups)

(* The inputs *)

GroupNames == {"g", "h"}

FirstAtoms == {Atom("a", g, o) : g \in GroupNames \cup {""}, o \in BOOLEAN}
SecondAtoms == {Atom("b", g, o) : g \in GroupNames \cup {""}, o \in BOOLEAN}

Regexes == {<<x>> : x \in FirstAtoms} \cup {<<x, y>> : x \in FirstAtoms, y \in SecondAtoms}

SampleLines == {<<>>, <<"a">>, <<"b">>, <<"a", "b">>, <<"b", "a">>, <<"b", "a", "b">>}

InitFilter ==
    /\ InitCacheState
    /\ fs = {}
    /\ envPath = Unset
    /\ pathext = <<"">>
    /\ ret = NotRun
    /\ call \in {[op |-> "filter_lines", lines |-> ls, regex |-> r, groups |-> gs] :
                    ls \in Lists(SampleLines, MaxLines), r \in Regexes,
                    gs \in {NoGroups} \cup Lists(GroupNames, MaxGroups)}

FilterLines ==
    /\ call.op = "filter_lines"
    /\ ~ret.done
    /\ ret' = Returned(filter_lines(call.lines, call.regex, call.groups))
    /\ UNCHANGED <<platform, cacheVars, procVars, last, calls, fs, envPath,
                   pathext, call>>

SpecFilter == InitFilter /\ [][FilterLines]_vars

----------------------------------------------------------------------------
(* Claims about the cache: C1 and C2 under SpecCache, C3 and C10 under      *)
(* SpecEntries                                                             *)

Range(s) == {s[i] : i \in 1..Len(s)}

LastCacheFile == _get_cache_filename(platform, last.name, last.file)
LastSource == abspath(platform, last.file)

\* C1 as stated: save_output_in_cache(name, filename, output) followed
\* immediately by get_output_from_cache(name, filename), the source not
\* touched in between, returns exactly output.
C1_WriteThenReadExact ==
    (last.op = "get" /\ last.afterSave) => last.result = Text(last.output)

\* C1 amended: when the source file's modification time is strictly earlier
\* than the time of the save, the read that follows the save returns the
\* saved text as the two newline translations leave it, which is exactly
\* output when output holds no carriage return.
C1_WriteThenReadTranslated ==
    (/\ last.op = "get"
     /\ last.afterSave
     /\ srcMtime[LastSource] < cache[LastCacheFile].mtime)
    => /\ last.result.kind = "text"
       /\ last.result.text = ReadTranslate(WriteTranslate(platform, last.output))
       /\ "CR" \notin Range(last.output) => last.result.text = last.output
       /\ Len(last.result.text) <= Len(last.output)

\* C1 witness: a shorter text saved over a longer one is read back whole.
C1_Witness ==
    /\ last.op = "get"
    /\ last.afterSave
    /\ Len(last.output) = 1
    /\ last.result = Text(last.output)

\* C2: get_output_from_cache returns the content of the cache file if and
\* only if the cache file exists and its modification time is strictly
\* greater than the source file's; in every other case it returns None.
C2_ValidIffStrictlyNewer ==
    last.op = "get" =>
        IF cache[LastCacheFile].exists
           /\ cache[LastCacheFile].mtime > srcMtime[LastSource]
        THEN last.result = Text(ReadTranslate(cache[LastCacheFile].data))
        ELSE last.result = None

\* C2 witness: an existing entry as old as the source is not returned.
C2_Witness ==
    /\ last.op = "get"
    /\ cache[LastCacheFile].exists
    /\ cache[LastCacheFile].mtime = srcMtime[LastSource]
    /\ cache[LastCacheFile].data # <<>>
    /\ last.result = None

\* C3: once the source file is touched after the most recent save of its
\* cache entry, and no later save happens, every get_output_from_cache of
\* that entry returns None.
C3_StaleNeverReturned ==
    (/\ last.op = "get"
     /\ cache[LastCacheFile].exists
     /\ LastCacheFile \notin savedSince[LastSource])
    => last.result = None

\* C3 witness: an entry written at an earlier tick than the touch, read
\* after the touch.
C3_Witness ==
    /\ last.op = "get"
    /\ cache[LastCacheFile].exists
    /\ cache[LastCacheFile].data # <<>>
    /\ LastCacheFile \notin savedSince[LastSource]
    /\ cache[LastCacheFile].mtime < srcMtime[LastSource]
    /\ last.result = None

\* a step that is a call of save_output_in_cache
SaveStep == calls' = calls + 1 /\ last'.op = "save"

AllPairs == Names \X AbsFiles(platform)

\* C10 as stated: save_output_in_cache(name, filename, output) leaves the
\* result of get_output_from_cache the same for every other pair, one that
\* differs in tool name or in absolute source path.
C10_OtherPairsUnchanged ==
    [][SaveStep =>
        \A q \in AllPairs :
            (q[1] # last'.name \/ q[2] # abspath(platform, last'.file))
            => GetResult(q[1], q[2])' = GetResult(q[1], q[2])]_vars

\* C10 amended: the result of get_output_from_cache is the same after the
\* save for every pair that differs in tool name or in the absolute source
\* path with its drive stripped; source paths that differ in the drive alone
\* share one cache file.
C10_OtherEntriesUnchanged ==
    [][SaveStep =>
        \A q \in AllPairs :
            (q[1] # last'.name \/ q[2].parts # abspath(platform, last'.file).parts)
            => GetResult(q[1], q[2])' = GetResult(q[1], q[2])]_vars

\* C10 witness: a save has run while the same file's entry for the other
\* tool, and the same tool's entry for another file, hold another text that
\* is still valid.
C10_Witness ==
    /\ last.op = "save"
    /\ \E q \in AllPairs :
          /\ q[1] # last.name
          /\ q[2] = abspath(platform, last.file)
          /\ GetResult(q[1], q[2]).kind = "text"
          /\ GetResult(q[1], q[2]) # GetResult(last.name, last.file)
    /\ \E q \in AllPairs :
          /\ q[1] = last.name
          /\ q[2].parts # abspath(platform, last.file).parts
          /\ GetResult(q[1], q[2]).kind = "text"
          /\ GetResult(q[1], q[2]) # GetResult(last.name, last.file)

----------------------------------------------------------------------------
(* Claims about the locator: C5 and C6 under SpecWhich, C7 under           *)
(* SpecPrograms                                                            *)

\* the path exists, can be accessed in the mode and is not a directory
Allowed(path, mode) ==
    IF mode = DefaultMode THEN KindOf(platform, path) = "exec"
    ELSE KindOf(platform, path) \in {"exec", "plain"}

\* the places of the search path, in order, where a candidate is allowed
Hits(cmd, mode, path) ==
    LET dirs == SearchDirs(platform, path)
        files == Candidates(platform, cmd.name)
    IN {h \in (1..Len(dirs)) \X (1..Len(files)) :
            Allowed(File(dirs[h[1]], files[h[2]]), mode)}

Earlier(h, g) == h[1] < g[1] \/ (h[1] = g[1] /\ h[2] <= g[2])

\* C5: a program name with a directory part is looked up at that exact path
\* only: which returns the name unchanged if the path exists, is executable
\* and is not a directory, and None otherwise, whatever the search path holds.
C5_DirectPathOnly ==
    (call.op = "which" /\ ret.done /\ call.cmd.dir # "")
    => ret.value = IF Allowed(call.cmd, call.mode)
                   THEN Found(call.cmd) ELSE NotFound

\* C5 witness: the exact path is no executable, a directory of the search
\* path holds an executable of the same name, and which returns None.
C5_Witness ==
    /\ call.op = "which"
    /\ ret.done
    /\ call.cmd.dir # ""
    /\ call.mode = DefaultMode
    /\ ~Allowed(call.cmd, call.mode)
    /\ Hits(File("", call.cmd.name), call.mode, call.path) # {}
    /\ ret.value = NotFound

Missing(program) ==
    IF program.dir # "" THEN ~Allowed(program, DefaultMode)
    ELSE Hits(program, DefaultMode, NoPath) = {}

\* C7: programs_not_in_path(programs) returns exactly the names which does
\* not find, in their input order and with their multiplicity.
C7_ExactlyTheMissing ==
    (call.op = "programs_not_in_path" /\ ret.done)
    => ret.value = SelectSeq(call.programs, Missing)

\* C7 witness: of two programs the first is found and the second is not, and
\* the second alone is returned.
C7_Witness ==
    /\ call.op = "programs_not_in_path"
    /\ ret.done
    /\ Len(call.programs) = 2
    /\ ~Missing(call.programs[1])
    /\ Missing(call.programs[2])
    /\ ret.value = <<call.programs[2]>>

----------------------------------------------------------------------------
(* Claims about the line filter, under SpecFilter *)

Filtered == call.op = "filter_lines" /\ ret.done /\ Compiles(call.regex)

\* the expression matches somewhere in the line
MatchesSomewhere(line) ==
    \E pos \in 1..(Len(line) + 1) : MatchFrom(call.regex, line, 1, pos).ok

\* the names of the groups of the expression
NamesOf(regex) == {regex[i].group : i \in DOMAIN regex} \ {""}

\* C8: with no group list, filter_lines yields exactly the lines in which the
\* pattern matches somewhere, each unchanged, in input order and once per
\* occurrence, and a line with no match is skipped without an error.
C8_YieldsMatchingLines ==
    (Filtered /\ call.groups = NoGroups)
    => /\ ret.value.raised = ""
       /\ ret.value.yielded = SelectSeq(call.lines, MatchesSomewhere)

\* C8 witness: of two lines one has no match and is skipped, the other
\* matches after its first character only and is yielded.
C8_Witness ==
    /\ Filtered
    /\ call.groups = NoGroups
    /\ Len(call.lines) = 2
    /\ ~MatchesSomewhere(call.lines[1])
    /\ MatchesSomewhere(call.lines[2])
    /\ ~MatchAtStart(call.regex, call.lines[2]).ok
    /\ ret.value.yielded = <<call.lines[2]>>

\* what a matching line yields for a group list: the capture of each name,
\* None for a name the match does not have
Wanted(line, groups) ==
    LET m == search(call.regex, line)
        cap(i) == IF groups[i] \in NamesOf(call.regex)
                  THEN CapOf(m, groups[i]) ELSE NoneCap
    IN IF Len(groups) = 1 THEN cap(1) ELSE [i \in DOMAIN groups |-> cap(i)]

RECURSIVE WantedOf(_, _)
WantedOf(lines, groups) ==
    IF lines = <<>> THEN <<>>
    ELSE (IF MatchesSomewhere(Head(lines))
          THEN <<Wanted(Head(lines), groups)>> ELSE <<>>)
         \o WantedOf(Tail(lines), groups)

\* C9 as stated: for every group list filter_lines never raises, and each
\* matching line yields the captures of the requested names in order, None
\* for a name the match does not have.
C9_NeverRaises ==
    (Filtered /\ call.groups # NoGroups)
    => /\ ret.value.raised = ""
       /\ ret.value.yielded = WantedOf(call.lines, call.groups)

====
